---- MODULE Spec2Model ----
(***************************************************************************)
(* Stop-and-Wait file transfer over a serial link (src/protocolo.py).      *)
(*                                                                         *)
(* Two processes, the sender (emissor_handler) and the receiver            *)
(* (receptor_handler), exchange frames over two FIFO byte channels.  The   *)
(* model works at frame granularity: a channel is a sequence of frames,    *)
(* the link may drop a frame, damage the payload of a frame, or hold a     *)
(* frame back past a timeout.  The receiver's disk holds the output file   *)
(* (the sequence of payloads written) and the checkpoint file <out>.temp.  *)
(***************************************************************************)
EXTENDS Integers, Sequences, FiniteSets, TLC

(***************************************************************************)
(* Program constants.                                                      *)
(***************************************************************************)
BLOCK_SIZE == 100
MAX_RETRANS == 5

(***************************************************************************)
(* Bounds of the model.                                                    *)
(***************************************************************************)
\* the largest source file has MaxBlocks blocks
MaxBlocks == 4
\* frames a channel holds; a write to a full channel is lost
MaxChan == 2
\* launches of each process in the specifications with restarts
MaxStarts == 2
\* the longest byte sequence calculate_crc32 is applied to
MaxCrcLen == 3
\* frames of a foreign sender put on the line in the specification of the receiver alone
MaxInject == 3
\* the largest block count handed to save_checkpoint on its own
MaxCkpt == 120

VARIABLES
    fileSize,   \* os.path.getsize(file_path): size of the source file in bytes
    sPc,        \* sender: position in emissor_handler
    sRetries,   \* sender: retries
    sCur,       \* sender: current_block_to_send
    sSeq,       \* sender: current_seq_num
    sPos,       \* sender: read position of f_in
    sPkt,       \* sender: packet
    sInt,       \* sender process: received_interrupt
    sResume,    \* sender: current_block read from ACK_STATUS (-1 before)
    sFirst,     \* history: source offset carried by the first data packet of the session (-1: none sent)
    sEnd,       \* history: number of END_SIGNAL writes of the session
    sStarts,    \* launches of the sender so far
    rPc,        \* receiver: position in receptor_handler
    rExp,       \* receiver: expected_seq_num
    rCur,       \* receiver: current_block
    rLast,      \* receiver: last_block_received
    rInt,       \* receiver process: received_interrupt
    rIO,        \* history: what the receiver consumed last and what it answered
    rStarts,    \* launches of the receiver so far
    outFile,    \* disk: the payloads in the output file, in order
    outExists,  \* disk: the output file exists
    ckpt,       \* disk: the checkpoint file <out>.temp
    s2r,        \* channel sender -> receiver
    r2s,        \* channel receiver -> sender
    crcIn,      \* calculate_crc32: the argument data
    crcOut,     \* calculate_crc32: the bytes returned (<<>> before the call)
    ckOp,       \* the checkpoint function called last on its own: "none", "save", "load",
                \* "remove", or "damage" when the file was overwritten from outside
    ckArg,      \* save_checkpoint: the argument last_block of the last call (-1: none since
                \* the file was last removed or overwritten from outside)
    ckGot,      \* load_checkpoint: the value returned by the last call (-1: not called)
    injected,   \* frames a foreign sender has put on the line
    obs         \* history: the payload damaged by FlipPayload and, from then on, the 'N'
                \* bytes answered to data packets and the retransmissions of the sender

sVars == <<sPc, sRetries, sCur, sSeq, sPos, sPkt, sInt, sResume, sFirst, sEnd, sStarts>>
rVars == <<rPc, rExp, rCur, rLast, rInt, rIO, rStarts>>
disk == <<outFile, outExists, ckpt>>
crcVars == <<crcIn, crcOut>>
ckVars == <<ckOp, ckArg, ckGot>>
vars == <<fileSize, sVars, rVars, disk, s2r, r2s, crcVars, ckVars, injected, obs>>

(***************************************************************************)
(* Decimal text: str() and int() of Python on non-negative integers.  A    *)
(* text is a sequence of characters; the digits are 0..9 and 10 stands for *)
(* any other character.                                                    *)
(***************************************************************************)
RECURSIVE str(_)
str(n) == IF n < 10 THEN <<n>> ELSE Append(str(n \div 10), n % 10)

IsDecimal(text) == Len(text) > 0 /\ \A i \in 1..Len(text) : text[i] \in 0..9

RECURSIVE int(_)
int(text) ==
    IF Len(text) = 1 THEN text[1]
    ELSE 10 * int(SubSeq(text, 1, Len(text) - 1)) + text[Len(text)]

(***************************************************************************)
(* CRC-32: generate_crc_table and calculate_crc32.  A 32-bit unsigned      *)
(* integer is the sequence of its four bytes, least significant first.     *)
(***************************************************************************)
\* a ^ b on bytes
RECURSIVE XorByte(_, _)
XorByte(a, b) ==
    IF a = 0 THEN b
    ELSE IF b = 0 THEN a
    ELSE ((a + b) % 2) + (2 * XorByte(a \div 2, b \div 2))

\* a ^ b on 32-bit integers
Xor(a, b) == [i \in 1..4 |-> XorByte(a[i], b[i])]

\* a >> 1
Shr1(a) == [i \in 1..4 |-> (a[i] \div 2) + (IF i < 4 THEN (a[i + 1] % 2) * 128 ELSE 0)]

\* a >> 8
Shr8(a) == <<a[2], a[3], a[4], 0>>

\* the 32-bit integer of a byte value
Word(byte) == <<byte, 0, 0, 0>>

\* 0xFFFFFFFF
AllOnes == <<255, 255, 255, 255>>

\* POLYNOMIAL = 0xEDB88320
POLYNOMIAL == <<32, 131, 184, 237>>

\* crc = (crc >> 1) ^ POLYNOMIAL if (crc & 1) else (crc >> 1)
TableStep(crc) == IF crc[1] % 2 = 1 THEN Xor(Shr1(crc), POLYNOMIAL) ELSE Shr1(crc)

\* for _ in range(8): the inner loop of generate_crc_table
RECURSIVE TableLoop(_, _)
TableLoop(crc, rounds) == IF rounds = 0 THEN crc ELSE TableLoop(TableStep(crc), rounds - 1)

\* generate_crc_table(): CRC_TABLE[i] = crc & 0xFFFFFFFF
CRC_TABLE == [i \in 0..255 |-> TableLoop(Word(i), 8)]

\* mutant: the running value is not shifted
CrcByteNoShift(crc, byte) == Xor(crc, CRC_TABLE[Xor(crc, Word(byte))[1]])

\* crc = (crc >> 8) ^ CRC_TABLE[(crc ^ byte) & 0xFF]
CrcByte(crc, byte) == Xor(Shr8(crc), CRC_TABLE[Xor(crc, Word(byte))[1]])

\* for byte in data
RECURSIVE CrcLoop(_, _)
CrcLoop(crc, data) ==
    IF data = <<>> THEN crc ELSE CrcLoop(CrcByte(crc, Head(data)), Tail(data))

\* struct.pack('<I', v): the four bytes, least significant first
PackLE(v) == <<v[1], v[2], v[3], v[4]>>

calculate_crc32(data) == PackLE(Xor(CrcLoop(AllOnes, data), AllOnes))

(***************************************************************************)
(* The checkpoint store.                                                   *)
(***************************************************************************)
NoFile == [exists |-> FALSE, text |-> <<>>]

\* mutant: only the last digit is written
save_checkpointLastDigit(last_block) == [exists |-> TRUE, text |-> <<last_block % 10>>]

save_checkpoint(last_block) == [exists |-> TRUE, text |-> str(last_block)]

\* mutant: the content of the file is not looked at
load_checkpointZero(c) == 0

load_checkpoint(c) ==
    IF ~c.exists THEN 0
    ELSE IF IsDecimal(c.text) THEN int(c.text) ELSE 0

\* mutant: the file is left where it is
remove_checkpointKeeps(c) == c

remove_checkpoint(c) == NoFile

(***************************************************************************)
(* The source file and the packets.  A payload is the range of source      *)
(* bytes it carries; a damaged payload has off = -1.                       *)
(***************************************************************************)
\* mutant: the quotient is rounded up by adding one
total_blocksPlusOne(size) == size \div BLOCK_SIZE + 1

total_blocks(size) == (size + BLOCK_SIZE - 1) \div BLOCK_SIZE

\* mutant: a read before the end of the file returns a full block
ReadBlockFull(size, pos) ==
    [off |-> pos, len |-> IF pos >= size THEN 0 ELSE BLOCK_SIZE]

\* f_in.read(BLOCK_SIZE) at position pos
ReadBlock(size, pos) ==
    [off |-> pos,
     len |-> IF pos >= size THEN 0
             ELSE IF size - pos < BLOCK_SIZE THEN size - pos ELSE BLOCK_SIZE]

\* the source file as the sequence of its blocks
Source(size) == [i \in 1..total_blocks(size) |-> ReadBlock(size, (i - 1) * BLOCK_SIZE)]

\* the CRC of a payload, abstractly: equal payloads, equal CRCs
Checksum(data) == <<data.off, data.len>>

MakePacket(seq, data) ==
    [t |-> "DATA", seq |-> seq, crc |-> Checksum(data), len |-> data.len, data |-> data]

StartFrame == [t |-> "START"]
EndFrame == [t |-> "END"]
JunkFrame == [t |-> "JUNK"]
AckByte == [t |-> "A"]
\* mutant: the receiver answers what it rejects with a new ACK_STATUS line
NakByteStatus == [t |-> "AS", text |-> <<0>>]
NakByte == [t |-> "N"]
AckStatus(n) == [t |-> "AS", text |-> str(n)]
\* n bytes that are neither 'A' nor 'N'
Garbage(n) == [t |-> "G", n |-> n]

NoPacket == [t |-> "NONE"]

\* a channel of bounded capacity takes a frame; a frame put on a full channel is lost
Send(ch, f) == IF Len(ch) < MaxChan THEN Append(ch, f) ELSE ch

\* ser.write: bytes written while the peer has no port open are lost (the peer's
\* main() discards whatever was buffered when it opens the port)
Write(ch, f, peer) == IF peer \in {"off", "done"} THEN ch ELSE Send(ch, f)

Remove(ch, i) == SubSeq(ch, 1, i - 1) \o SubSeq(ch, i + 1, Len(ch))

IsPrefix(a, b) == Len(a) <= Len(b) /\ \A i \in 1..Len(a) : a[i] = b[i]

(***************************************************************************)
(* Initial state: nothing runs, the disk holds no output and no            *)
(* checkpoint, the channels are empty.                                     *)
(***************************************************************************)
\* the sizes of the source file: empty, one byte, exactly one block, one block and
\* a byte, and MaxBlocks full blocks
FileSizes ==
    {0, 1, BLOCK_SIZE, BLOCK_SIZE + 1, BLOCK_SIZE * MaxBlocks}

SenderIdle ==
    /\ sPc = "off" /\ sRetries = 0 /\ sCur = 0 /\ sSeq = 0 /\ sPos = 0
    /\ sPkt = NoPacket /\ sInt = FALSE /\ sResume = -1 /\ sFirst = -1 /\ sEnd = 0

\* rIO: the frame the receiver consumed last (or the timeout or interrupt that ended
\* its read), the verdict of its checks, the byte it answered, and whether END\n was
\* among the frames consumed in this session
NoIO == [in |-> "none", verdict |-> "none", out |-> "none", end |-> FALSE]

\* obs: nothing was damaged by FlipPayload yet
NoObs == [flips |-> 0, block |-> -1, naks |-> 0, resends |-> 0]

\* obs after the receiver answered a frame with the byte out
ObservedAnswer(o, frame, out) ==
    IF o.flips > 0 /\ frame.t = "DATA" /\ out = "N" THEN [o EXCEPT !.naks = @ + 1] ELSE o

\* obs after the sender wrote its packet again
ObservedResend(o) == IF o.flips > 0 THEN [o EXCEPT !.resends = @ + 1] ELSE o

ReceiverIdle ==
    /\ rPc = "off" /\ rExp = 0 /\ rCur = 0 /\ rLast = 0 /\ rInt = FALSE
    /\ rIO = NoIO

Init ==
    /\ fileSize \in FileSizes
    /\ SenderIdle /\ sStarts = 0
    /\ ReceiverIdle /\ rStarts = 0
    /\ outFile = <<>> /\ outExists = FALSE /\ ckpt = NoFile
    /\ s2r = <<>> /\ r2s = <<>>
    /\ crcIn = <<>> /\ crcOut = <<>>
    /\ ckOp = "none" /\ ckArg = -1 /\ ckGot = -1 /\ injected = 0
    /\ obs = NoObs

(***************************************************************************)
(* Timing.  A read that gives up is justified either by the link holding   *)
(* bytes back (late = TRUE: the timeout may fire at any moment) or by the  *)
(* peer having nothing more to say (late = FALSE: the timeout fires only   *)
(* when no byte is under way and the peer is idle or gone).                *)
(***************************************************************************)
ReceiverQuiet ==
    \/ rPc \in {"off", "done"}
    \/ s2r = <<>> /\ rPc \in {"wait_start", "loop"}
SenderGone == s2r = <<>> /\ sPc \in {"off", "done"}

(***************************************************************************)
(* The sender: main() and emissor_handler.                                 *)
(***************************************************************************)
\* mutant: the handshake loop admits one attempt more
HandshakeRetryOneMore(retries) == retries <= MAX_RETRANS

\* while retries < MAX_RETRANS, the handshake loop
HandshakeRetry(retries) == retries < MAX_RETRANS

\* mutant: the retransmission loop admits one attempt more
BlockRetryOneMore(retries) == retries <= MAX_RETRANS

\* while retries < MAX_RETRANS and not ack_ok, the retransmission loop after a failed attempt
BlockRetry(retries) == retries < MAX_RETRANS

\* mutant: every session starts with sequence number 0
InitialSeqZero(current_block) == 0

\* current_seq_num = current_block % 2
InitialSeq(current_block) == current_block % 2

\* mutant: the source file is not positioned, the sender reads from its start
SeekOffsetFromStart(current_block) == 0

\* f_in.seek(current_block * BLOCK_SIZE)
SeekOffset(current_block) == current_block * BLOCK_SIZE

\* while current_block_to_send <= total_blocks - 1
LoopContinues(cur, total) == cur <= total - 1

\* mutant: the comparison is strict
EndDueStrict(cur, total, interrupted) == cur > total /\ ~interrupted

\* mutant: END\n is written without a look at received_interrupt
EndDueInterrupted(cur, total, interrupted) == cur >= total

\* if current_block_to_send >= total_blocks and not received_interrupt
EndDue(cur, total, interrupted) == cur >= total /\ ~interrupted

\* response.startswith(ACK_STATUS_SIGNAL) and int(...) parses
ValidStatus(response) ==
    /\ Len(response) = 1
    /\ response[1].t = "AS"
    /\ IsDecimal(response[1].text)

\* mutant: 'N' counts as an acknowledgement too
IsAckOrNak(frame) == frame.t \in {"A", "AS", "N"}

\* response == ACK_CHAR, for the one byte read off the head frame
IsAck(frame) == frame.t \in {"A", "AS"}

\* the channel after a read of one byte: an ACK_STATUS line loses its 'A'
\* and leaves "CK_STATUS:<n>\n" behind
ConsumeByte(ch) ==
    LET f == Head(ch) IN
    IF f.t = "AS" THEN <<Garbage(10 + Len(f.text) + 1)>> \o Tail(ch)
    ELSE IF f.t = "G" /\ f.n > 1 THEN <<Garbage(f.n - 1)>> \o Tail(ch)
    ELSE Tail(ch)

\* main(): open the port, flushInput, flushOutput, then emissor_handler up to the handshake loop
SOpen(limit) ==
    /\ sPc \in {"off", "done"}
    /\ sStarts < limit
    /\ sStarts' = sStarts + 1
    /\ r2s' = <<>>
    /\ sPc' = "hs_send"
    /\ sRetries' = 0 /\ sCur' = 0 /\ sSeq' = 0 /\ sPos' = 0 /\ sPkt' = NoPacket
    /\ sInt' = FALSE /\ sResume' = -1 /\ sFirst' = -1 /\ sEnd' = 0
    /\ UNCHANGED <<crcVars, ckVars, injected, obs, fileSize, rVars, disk, s2r>>

\* head of the handshake loop: the interrupt check and ser.write(status_signal)
SHandshakeSend ==
    /\ sPc = "hs_send"
    /\ IF sInt
       THEN sPc' = "done" /\ UNCHANGED s2r
       ELSE sPc' = "hs_wait" /\ s2r' = Write(s2r, StartFrame, rPc)
    /\ UNCHANGED <<crcVars, ckVars, injected, obs, fileSize, sRetries, sCur, sSeq, sPos, sPkt, sInt, sResume, sFirst,
                   sEnd, sStarts, rVars, disk, r2s>>

\* receive_with_timeout(ser, MAX_FILENAME_LEN, TIMEOUT_SEC) and the rest of the loop body:
\* the response is every byte that arrived in the 3 s, the first k frames of r2s
SHandshakeWait(late) ==
    /\ sPc = "hs_wait"
    /\ \E k \in 0..Len(r2s) :
        /\ \/ late
           \/ k = Len(r2s) /\ ReceiverQuiet
           \/ sInt /\ k = 0
        /\ LET response == SubSeq(r2s, 1, k) IN
           /\ r2s' = SubSeq(r2s, k + 1, Len(r2s))
           /\ IF ValidStatus(response)
              THEN LET blk == int(response[1].text) IN
                   /\ sResume' = blk
                   /\ sCur' = blk
                   /\ sSeq' = InitialSeq(blk)
                   /\ sPos' = SeekOffset(blk)
                   /\ sPc' = "data_top"
                   /\ UNCHANGED sRetries
              ELSE /\ sRetries' = sRetries + 1
                   /\ sPc' = IF HandshakeRetry(sRetries + 1) THEN "hs_send" ELSE "done"
                   /\ UNCHANGED <<sResume, sCur, sSeq, sPos>>
    /\ UNCHANGED <<crcVars, ckVars, injected, obs, fileSize, sPkt, sInt, sFirst, sEnd, sStarts, rVars, disk, s2r>>

\* head of the data loop: loop condition, interrupt check, f_in.read, the packet and
\* its first ser.write; on leaving the loop, the END_SIGNAL write
SDataTop ==
    /\ sPc = "data_top"
    /\ LET total == total_blocks(fileSize)
           data_buffer == ReadBlock(fileSize, sPos)
       IN IF LoopContinues(sCur, total) /\ ~sInt /\ data_buffer.len > 0
          THEN /\ sPkt' = MakePacket(sSeq, data_buffer)
               /\ sPos' = sPos + data_buffer.len
               /\ sRetries' = 0
               /\ s2r' = Write(s2r, MakePacket(sSeq, data_buffer), rPc)
               /\ sFirst' = IF sFirst = -1 THEN data_buffer.off ELSE sFirst
               /\ sPc' = "data_wait"
               /\ UNCHANGED sEnd
          ELSE /\ IF EndDue(sCur, total, sInt)
                  THEN s2r' = Write(s2r, EndFrame, rPc) /\ sEnd' = sEnd + 1
                  ELSE UNCHANGED <<s2r, sEnd>>
               /\ sPc' = "done"
               /\ UNCHANGED <<sPkt, sPos, sRetries, sFirst>>
    /\ UNCHANGED <<crcVars, ckVars, injected, obs, fileSize, sCur, sSeq, sInt, sResume, sStarts, rVars, disk, r2s>>

\* receive_with_timeout(ser, 1, TIMEOUT_SEC) and the rest of the retransmission loop
SDataWait(late) ==
    /\ sPc = "data_wait"
    /\ \E got \in BOOLEAN :
        /\ got => r2s # <<>>
        /\ ~got => \/ late
                   \/ r2s = <<>> /\ ReceiverQuiet
                   \/ sInt
        /\ r2s' = IF got THEN ConsumeByte(r2s) ELSE r2s
        /\ IF got /\ IsAck(Head(r2s))
           THEN /\ sCur' = sCur + 1
                /\ sSeq' = 1 - sSeq
                /\ sPc' = "data_top"
                /\ UNCHANGED <<sRetries, s2r, obs>>
           ELSE /\ sRetries' = sRetries + 1
                /\ IF BlockRetry(sRetries + 1)
                   THEN /\ sPc' = "data_wait"
                        /\ s2r' = Write(s2r, sPkt, rPc)
                        /\ obs' = ObservedResend(obs)
                   ELSE sPc' = "done" /\ UNCHANGED <<s2r, obs>>
                /\ UNCHANGED <<sCur, sSeq>>
    /\ UNCHANGED <<crcVars, ckVars, injected, fileSize, sPos, sPkt, sInt, sResume, sFirst, sEnd, sStarts, rVars, disk>>

\* signal_handler in the sender process
SInterrupt ==
    /\ sPc \notin {"off", "done"}
    /\ ~sInt
    /\ sInt' = TRUE
    /\ UNCHANGED <<crcVars, ckVars, injected, obs, fileSize, sPc, sRetries, sCur, sSeq, sPos, sPkt, sResume, sFirst, sEnd,
                   sStarts, rVars, disk, s2r, r2s>>

\* the sender process is killed
SKill ==
    /\ sPc \notin {"off", "done"}
    /\ sPc' = "off"
    /\ sRetries' = 0 /\ sCur' = 0 /\ sSeq' = 0 /\ sPos' = 0 /\ sPkt' = NoPacket
    /\ sInt' = FALSE /\ sResume' = -1 /\ sFirst' = -1 /\ sEnd' = 0
    /\ UNCHANGED <<crcVars, ckVars, injected, obs, fileSize, sStarts, rVars, disk, s2r, r2s>>

(***************************************************************************)
(* The receiver: main() and receptor_handler.                              *)
(***************************************************************************)
\* mode = 'ab' if last_block_received > 0 else 'wb'
OpenMode(last_block_received) == IF last_block_received > 0 THEN "ab" ELSE "wb"

\* open(output_file_path, mode): 'wb' truncates, 'ab' keeps the content
OpenFile(content, mode) == IF mode = "wb" THEN <<>> ELSE content

\* len(header_rest) < 8 or len(data) != data_len: the bytes are no complete packet, or
\* fewer payload bytes than the header announces arrive within the 2 s
\* (END\n has 3 bytes after the first, a START line runs into the 2 s payload deadline)
IsShort(frame) == frame.t # "DATA" \/ frame.data.len < frame.len

\* mutant: the CRC is not compared
CrcMismatchNever(frame) == FALSE

\* calc_crc != recv_crc
CrcMismatch(frame) == Checksum(frame.data) # frame.crc

\* mutant: every packet with another sequence byte than the expected one is a duplicate
IsDuplicateAny(seq, expected) == seq # expected

\* seq == (1 - expected_seq_num)
IsDuplicate(seq, expected) == seq = 1 - expected

\* mutant: the sequence number is not looked at
VerdictNoSequence(frame, expected) ==
    IF IsShort(frame) THEN "N"
    ELSE IF CrcMismatch(frame) THEN "N"
    ELSE "write"

\* mutant: a packet with the sequence number of the block before is rejected
VerdictNakDuplicate(frame, expected) ==
    IF IsShort(frame) THEN "N"
    ELSE IF CrcMismatch(frame) THEN "N"
    ELSE IF frame.seq # expected THEN "N"
    ELSE "write"

\* the byte the loop body answers a packet with, or "write" when it accepts it
Verdict(frame, expected) ==
    IF IsShort(frame) THEN "N"
    ELSE IF CrcMismatch(frame) THEN "N"
    ELSE IF frame.seq # expected
         THEN IF IsDuplicate(frame.seq, expected) THEN "A" ELSE "N"
    ELSE "write"

\* the code after the loop: f_out.close() and remove_checkpoint(output_file_path)
AfterLoop(c) == remove_checkpoint(c)

\* main(): open the port, flushInput, flushOutput, then receptor_handler up to ser.readline()
ROpen(limit) ==
    /\ rPc \in {"off", "done"}
    /\ rStarts < limit
    /\ rStarts' = rStarts + 1
    /\ s2r' = <<>>
    /\ rPc' = "wait_start"
    /\ rExp' = 0 /\ rCur' = 0 /\ rLast' = 0 /\ rInt' = FALSE
    /\ rIO' = NoIO
    /\ UNCHANGED <<crcVars, ckVars, injected, obs, fileSize, sVars, disk, r2s>>

\* ser.readline() with its 30 s timeout, flushInput, the START check, load_checkpoint,
\* open(output_file_path, mode) and the ACK_STATUS write
RStart(late) ==
    /\ rPc = "wait_start"
    /\ IF s2r = <<>>
       THEN /\ late \/ SenderGone
            /\ rPc' = "done"
            /\ rIO' = [NoIO EXCEPT !.in = "start_timeout"]
            /\ UNCHANGED <<rExp, rCur, rLast, disk, s2r, r2s>>
       ELSE \E k \in 0..(Len(s2r) - 1) :
            /\ late \/ k = 0
            /\ s2r' = SubSeq(s2r, Len(s2r) - k + 1, Len(s2r))
            /\ IF Head(s2r).t = "START"
               THEN LET last_block_received == load_checkpoint(ckpt) IN
                    /\ rLast' = last_block_received
                    /\ outFile' = OpenFile(outFile, OpenMode(last_block_received))
                    /\ outExists' = TRUE
                    /\ r2s' = Write(r2s, AckStatus(last_block_received), sPc)
                    /\ rExp' = last_block_received % 2
                    /\ rCur' = last_block_received
                    /\ rPc' = "loop"
                    /\ rIO' = [NoIO EXCEPT !.in = "START", !.out = "AS"]
                    /\ UNCHANGED ckpt
               ELSE /\ rPc' = "done"
                    /\ rIO' = [NoIO EXCEPT !.in = "bad_start"]
                    /\ UNCHANGED <<rExp, rCur, rLast, disk, r2s>>
    /\ UNCHANGED <<crcVars, ckVars, injected, obs, fileSize, sVars, rInt, rStarts>>

\* one pass of the receive loop up to f_out.flush(): the header read with its 10 s
\* timeout, the rest of the packet, the length, CRC and sequence checks
RLoop(late) ==
    /\ rPc = "loop"
    /\ IF rInt \/ s2r = <<>>
       THEN /\ rInt \/ late \/ SenderGone
            /\ ckpt' = AfterLoop(ckpt)
            /\ rPc' = "done"
            /\ rIO' = [in |-> IF rInt THEN "interrupt" ELSE "header_timeout",
                        verdict |-> "none", out |-> "none", end |-> rIO.end]
            /\ UNCHANGED <<outFile, outExists, s2r, r2s, obs>>
       ELSE LET frame == Head(s2r)
                verdict == Verdict(frame, rExp)
            IN /\ s2r' = Tail(s2r)
               /\ IF verdict = "write"
                  THEN /\ outFile' = Append(outFile, frame.data)
                       /\ rPc' = "acc_ack"
                       /\ rIO' = [in |-> frame.t, verdict |-> verdict, out |-> "none",
                                   end |-> rIO.end]
                       /\ UNCHANGED <<outExists, ckpt, r2s, obs>>
                  ELSE /\ r2s' = Write(r2s, IF verdict = "A" THEN AckByte ELSE NakByte, sPc)
                       /\ rPc' = "loop"
                       /\ rIO' = [in |-> frame.t, verdict |-> verdict, out |-> verdict,
                                   end |-> rIO.end \/ frame.t = "END"]
                       /\ obs' = ObservedAnswer(obs, frame, verdict)
                       /\ UNCHANGED <<outFile, outExists, ckpt>>
    /\ UNCHANGED <<crcVars, ckVars, injected, fileSize, sVars, rExp, rCur, rLast, rInt, rStarts>>

\* ser.write(ACK_CHAR); expected_seq_num = 1 - expected_seq_num; current_block += 1
RAck ==
    /\ rPc = "acc_ack"
    /\ r2s' = Write(r2s, AckByte, sPc)
    /\ rExp' = 1 - rExp
    /\ rCur' = rCur + 1
    /\ rPc' = "acc_save"
    /\ rIO' = [rIO EXCEPT !.out = "A"]
    /\ UNCHANGED <<crcVars, ckVars, injected, obs, fileSize, sVars, rLast, rInt, rStarts, disk, s2r>>

\* save_checkpoint(output_file_path, current_block)
RSave ==
    /\ rPc = "acc_save"
    /\ ckpt' = save_checkpoint(rCur)
    /\ rPc' = "loop"
    /\ UNCHANGED <<crcVars, ckVars, injected, obs, fileSize, sVars, rExp, rCur, rLast, rInt, rIO, rStarts, outFile, outExists,
                   s2r, r2s>>

\* signal_handler in the receiver process
RInterrupt ==
    /\ rPc \notin {"off", "done"}
    /\ ~rInt
    /\ rInt' = TRUE
    /\ UNCHANGED <<crcVars, ckVars, injected, obs, fileSize, sVars, rPc, rExp, rCur, rLast, rIO, rStarts, disk, s2r, r2s>>

\* the receiver process is killed
RKill ==
    /\ rPc \notin {"off", "done"}
    /\ rPc' = "off"
    /\ rExp' = 0 /\ rCur' = 0 /\ rLast' = 0 /\ rInt' = FALSE
    /\ rIO' = NoIO
    /\ UNCHANGED <<crcVars, ckVars, injected, obs, fileSize, sVars, rStarts, disk, s2r, r2s>>

(***************************************************************************)
(* The link.                                                               *)
(***************************************************************************)
\* a frame of the sender is lost
LoseS2R ==
    /\ \E i \in 1..Len(s2r) : s2r' = Remove(s2r, i)
    /\ UNCHANGED <<crcVars, ckVars, injected, obs, fileSize, sVars, rVars, disk, r2s>>

\* a response of the receiver is lost
LoseR2S ==
    /\ \E i \in 1..Len(r2s) : r2s' = Remove(r2s, i)
    /\ UNCHANGED <<crcVars, ckVars, injected, obs, fileSize, sVars, rVars, disk, s2r>>

\* an 'A' of the receiver is lost
LoseAck ==
    /\ \E i \in 1..Len(r2s) : r2s[i].t = "A" /\ r2s' = Remove(r2s, i)
    /\ UNCHANGED <<crcVars, ckVars, injected, obs, fileSize, sVars, rVars, disk, s2r>>

\* bytes of a frame of the sender are damaged: the payload of a data packet no
\* longer matches its CRC, a control line is no longer the line
Damaged(frame) ==
    IF frame.t = "DATA"
    THEN [frame EXCEPT !.data = [off |-> -1, len |-> frame.len]]
    ELSE JunkFrame

CorruptS2R ==
    /\ \E i \in 1..Len(s2r) :
        /\ Damaged(s2r[i]) # s2r[i]
        /\ s2r' = [s2r EXCEPT ![i] = Damaged(s2r[i])]
    /\ UNCHANGED <<crcVars, ckVars, injected, obs, fileSize, sVars, rVars, disk, r2s>>

\* one bit of the payload of one data packet is flipped, once
FlipPayload ==
    /\ obs.flips = 0
    /\ \E i \in 1..Len(s2r) :
        /\ s2r[i].t = "DATA"
        /\ ~CrcMismatch(s2r[i])
        /\ s2r' = [s2r EXCEPT ![i] = Damaged(s2r[i])]
        /\ obs' = [obs EXCEPT !.flips = 1, !.block = s2r[i].data.off]
    /\ UNCHANGED <<crcVars, ckVars, injected, fileSize, sVars, rVars, disk, r2s>>

\* bytes of a response are damaged
DamagedResponse(frame) ==
    IF frame.t = "AS" THEN [t |-> "AS", text |-> <<10>>]
    ELSE IF frame.t = "G" THEN frame
    ELSE Garbage(1)

CorruptR2S ==
    /\ \E i \in 1..Len(r2s) :
        /\ r2s[i].t \in {"A", "N"} \/ (r2s[i].t = "AS" /\ IsDecimal(r2s[i].text))
        /\ r2s' = [r2s EXCEPT ![i] = DamagedResponse(r2s[i])]
    /\ UNCHANGED <<crcVars, ckVars, injected, obs, fileSize, sVars, rVars, disk, s2r>>

(***************************************************************************)
(* A foreign sender: any frame may arrive at the receiver, one at a time.  *)
(***************************************************************************)
\* payloads a frame may carry: the blocks of the source, no byte at all, and one byte
\* more than a block
ForeignPayloads(size) ==
    {ReadBlock(size, (i - 1) * BLOCK_SIZE) : i \in 1..total_blocks(size)}
        \cup {[off |-> 0, len |-> 0], [off |-> 0, len |-> BLOCK_SIZE + 1]}

\* a packet that ends one byte before the length its header announces
Truncated(frame) == [frame EXCEPT !.data = [off |-> frame.data.off, len |-> frame.len - 1]]

\* the frames: the control lines, noise, and for every payload and every value 0, 1, 2
\* of the sequence byte the well-formed packet, the packet with a damaged payload and
\* (for sequence byte 0) the truncated packet
ForeignFrames(size) ==
    {StartFrame, EndFrame, JunkFrame}
        \cup {MakePacket(q, d) : q \in 0..2, d \in ForeignPayloads(size)}
        \cup {Damaged(MakePacket(q, d)) : q \in 0..2, d \in ForeignPayloads(size)}
        \cup {Truncated(MakePacket(0, d)) : d \in {e \in ForeignPayloads(size) : e.len > 0}}

\* a frame arrives at the receiver, which has its port open and nothing else to read
Inject ==
    /\ injected < MaxInject
    /\ rPc \in {"wait_start", "loop"}
    /\ s2r = <<>>
    /\ \E f \in ForeignFrames(fileSize) : s2r' = <<f>>
    /\ injected' = injected + 1
    /\ UNCHANGED <<crcVars, ckVars, obs, fileSize, sVars, rVars, disk, r2s>>

(***************************************************************************)
(* The checkpoint functions called on their own, on one output path.       *)
(***************************************************************************)
CkSave ==
    /\ \E last_block \in 0..MaxCkpt :
        /\ ckpt' = save_checkpoint(last_block)
        /\ ckArg' = last_block
    /\ ckOp' = "save" /\ ckGot' = -1
    /\ UNCHANGED <<crcVars, injected, obs, fileSize, sVars, rVars, outFile, outExists, s2r, r2s>>

CkLoad ==
    /\ ckGot' = load_checkpoint(ckpt)
    /\ ckOp' = "load"
    /\ UNCHANGED <<crcVars, injected, obs, fileSize, sVars, rVars, disk, s2r, r2s, ckArg>>

CkRemove ==
    /\ ckpt' = remove_checkpoint(ckpt)
    /\ ckOp' = "remove" /\ ckArg' = -1 /\ ckGot' = -1
    /\ UNCHANGED <<crcVars, injected, obs, fileSize, sVars, rVars, outFile, outExists, s2r, r2s>>

\* texts int() raises ValueError for: the empty file a save killed between open and
\* write leaves behind, and texts with a character that is no digit
Unparseable == {<<>>, <<10>>, <<1, 10>>}

\* <out>.temp is left with a content that is no number
CkDamage ==
    /\ \E text \in Unparseable : ckpt' = [exists |-> TRUE, text |-> text]
    /\ ckOp' = "damage" /\ ckArg' = -1 /\ ckGot' = -1
    /\ UNCHANGED <<crcVars, injected, obs, fileSize, sVars, rVars, outFile, outExists, s2r, r2s>>

(***************************************************************************)
(* calculate_crc32 applied to a byte sequence.                             *)
(***************************************************************************)
\* byte values: the extremes, both ends of the 7-bit range, a letter and a digit
CrcBytes == {0, 1, 49, 97, 128, 255}

CrcInputs == UNION {[1..n -> CrcBytes] : n \in 0..MaxCrcLen}

InitCrc ==
    /\ fileSize = 0
    /\ SenderIdle /\ sStarts = 0
    /\ ReceiverIdle /\ rStarts = 0
    /\ outFile = <<>> /\ outExists = FALSE /\ ckpt = NoFile
    /\ s2r = <<>> /\ r2s = <<>>
    /\ crcIn \in CrcInputs /\ crcOut = <<>>
    /\ ckOp = "none" /\ ckArg = -1 /\ ckGot = -1 /\ injected = 0
    /\ obs = NoObs

CrcCall ==
    /\ crcOut = <<>>
    /\ crcOut' = calculate_crc32(crcIn)
    /\ UNCHANGED <<crcIn, ckVars, injected, obs, fileSize, sVars, rVars, disk, s2r, r2s>>

(***************************************************************************)
(* Specifications.                                                         *)
(***************************************************************************)
\* everything: restarts, interrupts, kills and a link that loses, damages and delays
Next ==
    \/ SOpen(MaxStarts) \/ SHandshakeSend \/ SHandshakeWait(TRUE) \/ SDataTop
    \/ SDataWait(TRUE) \/ SInterrupt \/ SKill
    \/ ROpen(MaxStarts) \/ RStart(TRUE) \/ RLoop(TRUE) \/ RAck \/ RSave
    \/ RInterrupt \/ RKill
    \/ LoseS2R \/ LoseR2S \/ CorruptS2R \/ CorruptR2S

Spec == Init /\ [][Next]_vars

\* the disk a killed receiver leaves behind: the first n blocks and the checkpoint n
InitResumed ==
    /\ fileSize \in FileSizes
    /\ SenderIdle /\ sStarts = 0
    /\ ReceiverIdle /\ rStarts = 0
    /\ \E n \in 0..total_blocks(fileSize) :
        /\ outFile = SubSeq(Source(fileSize), 1, n)
        /\ outExists \in (IF n > 0 THEN {TRUE} ELSE BOOLEAN)
        /\ ckpt = IF n = 0 THEN NoFile ELSE save_checkpoint(n)
    /\ s2r = <<>> /\ r2s = <<>>
    /\ crcIn = <<>> /\ crcOut = <<>>
    /\ ckOp = "none" /\ ckArg = -1 /\ ckGot = -1 /\ injected = 0
    /\ obs = NoObs

\* one session over a link that loses, damages and delays, from any disk a killed
\* receiver leaves behind
NextLink ==
    \/ SOpen(1) \/ SHandshakeSend \/ SHandshakeWait(TRUE) \/ SDataTop
    \/ SDataWait(TRUE)
    \/ ROpen(1) \/ RStart(TRUE) \/ RLoop(TRUE) \/ RAck \/ RSave
    \/ LoseS2R \/ LoseR2S \/ CorruptS2R \/ CorruptR2S

SpecLink == InitResumed /\ [][NextLink]_vars

\* a process that is started keeps running: every step of emissor_handler and of
\* receptor_handler is a computation or a read that returns when its timeout expires
SenderStep == SHandshakeSend \/ SHandshakeWait(TRUE) \/ SDataTop \/ SDataWait(TRUE)

ReceiverStep == RStart(TRUE) \/ RLoop(TRUE) \/ RAck \/ RSave

SpecLinkLive == SpecLink /\ WF_vars(SenderStep) /\ WF_vars(ReceiverStep)

\* restarts, interrupts and kills over a reliable link
NextCrash ==
    \/ SOpen(MaxStarts) \/ SHandshakeSend \/ SHandshakeWait(FALSE) \/ SDataTop
    \/ SDataWait(FALSE) \/ SInterrupt \/ SKill
    \/ ROpen(MaxStarts) \/ RStart(FALSE) \/ RLoop(FALSE) \/ RAck \/ RSave
    \/ RInterrupt \/ RKill

SpecCrash == Init /\ [][NextCrash]_vars

\* one session over a link that loses 'A' bytes and nothing else
NextAckLoss ==
    \/ SOpen(1) \/ SHandshakeSend \/ SHandshakeWait(FALSE) \/ SDataTop
    \/ SDataWait(FALSE)
    \/ ROpen(1) \/ RStart(FALSE) \/ RLoop(FALSE) \/ RAck \/ RSave
    \/ LoseAck

SpecAckLoss == Init /\ [][NextAckLoss]_vars

\* one session over a link that flips one bit of one payload and is reliable otherwise
NextOneFlip ==
    \/ SOpen(1) \/ SHandshakeSend \/ SHandshakeWait(FALSE) \/ SDataTop
    \/ SDataWait(FALSE)
    \/ ROpen(1) \/ RStart(FALSE) \/ RLoop(FALSE) \/ RAck \/ RSave
    \/ FlipPayload

SpecOneFlip == Init /\ [][NextOneFlip]_vars

\* the receiver alone, fed by a foreign sender, from any disk a killed receiver
\* leaves behind
NextFrames ==
    \/ ROpen(1) \/ RStart(FALSE) \/ RLoop(FALSE) \/ RAck \/ RSave
    \/ Inject

SpecFrames == InitResumed /\ [][NextFrames]_vars

\* save_checkpoint, load_checkpoint and remove_checkpoint in any order
NextCheckpoint == CkSave \/ CkLoad \/ CkRemove \/ CkDamage

SpecCheckpoint == Init /\ [][NextCheckpoint]_vars

\* calculate_crc32 called once on a byte sequence
NextCrc == CrcCall

SpecCrc == InitCrc /\ [][NextCrc]_vars

(***************************************************************************)
(* Claims.                                                                 *)
(***************************************************************************)
\* the number the checkpoint file holds, 0 when there is none
Stored(c) == IF c.exists /\ IsDecimal(c.text) THEN int(c.text) ELSE 0

\* the first n blocks of the source
FirstBlocks(n) == SubSeq(Source(fileSize), 1, n)

\* C1: over a link that loses, damages and delays, the k-th payload in the output
\* file is block k of the source: no block skipped, none written twice.
C1_AscendingOrder == IsPrefix(outFile, Source(fileSize))

\* C2: once the sender has read an 'A' for every block and written END\n, the
\* output file equals the source file.
C2_SuccessIsIdentical == (sPc = "done" /\ sEnd = 1) => outFile = Source(fileSize)

C4_StoppedConsistent ==
    rPc \in {"off", "done"} =>
        \/ outFile = Source(fileSize) /\ ~ckpt.exists
        \/ outFile = FirstBlocks(Stored(ckpt))

\* C5: with restarts over a reliable link, every resumed session continues the prefix
\* the previous one left, and a session that ends with END\n leaves the output
\* identical to the source.
C5_ResumeContinuesPrefix ==
    /\ Len(outFile) <= Len(Source(fileSize))
    /\ \A i \in 1..Len(outFile) : outFile[i] = Source(fileSize)[i]
    /\ (sEnd = 1 => Len(outFile) = Len(Source(fileSize)))

\* C6: when the 10 s header wait expires with no END\n seen, the session ends and the
\* checkpoint still holds the number of blocks acknowledged.
C6_TimeoutKeepsCheckpoint ==
    (rPc = "done" /\ rIO.in = "header_timeout" /\ ~rIO.end) => Stored(ckpt) = rCur

\* C7: when the interrupt flag ends the receive loop, the checkpoint still holds the
\* number of blocks acknowledged.
C7_InterruptKeepsCheckpoint ==
    (rPc = "done" /\ rIO.in = "interrupt") => Stored(ckpt) = rCur

\* C8: END\n at a packet boundary is answered with no byte, and the receiver
\* terminates with the checkpoint deleted.
C8_EndRecognised ==
    rIO.in = "END" => (rIO.out = "none" /\ rPc = "done" /\ ~ckpt.exists)

\* C9: the ACK_STATUS the receiver answers START with carries the number its
\* checkpoint holds (0 when there is none); the sender writes no data packet before
\* it has read a valid ACK_STATUS:<n>, and its first data packet carries the source
\* bytes from offset n * BLOCK_SIZE.
C9_ResumeHandshake ==
    /\ \A i \in 1..Len(r2s) :
        (rIO.in = "START" /\ r2s[i].t = "AS" /\ IsDecimal(r2s[i].text))
            => int(r2s[i].text) = Stored(ckpt)
    /\ sPc \in {"hs_send", "hs_wait"} => sFirst = -1
    /\ sFirst # -1 => (sResume >= 0 /\ sFirst = sResume * BLOCK_SIZE)
    /\ sResume >= 0 => sResume = rLast

\* C9 witness: a sender resumed at block n > 0 has sent its first data packet.
C9_Witness ==
    /\ sResume > 0
    /\ sFirst = sResume * BLOCK_SIZE
    /\ sPc = "data_wait"

\* C10 as stated: a sender that read ACK_STATUS:<n> with n >= total_blocks sends no
\* data packet and ends having written END\n exactly once.
C10_EndAlways ==
    sResume >= total_blocks(fileSize) =>
        /\ sFirst = -1
        /\ sPc = "done" => sEnd = 1

\* C10 amended: a sender that read ACK_STATUS:<n> with n >= total_blocks sends no data
\* packet, and ends having written END\n exactly once when received_interrupt is not
\* set, and without writing END\n when it is.
C10_AlreadyComplete ==
    sResume >= total_blocks(fileSize) =>
        /\ sFirst = -1
        /\ sPc \in {"data_top", "done"}
        /\ sPc = "data_top" => sEnd = 0
        /\ sPc = "done" => sEnd = (IF sInt THEN 0 ELSE 1)

\* C10 witness: the sender of a non-empty file was told that every block is there and
\* has ended with END\n.
C10_Witness ==
    /\ fileSize > 0
    /\ sResume >= total_blocks(fileSize)
    /\ sPc = "done" /\ sEnd = 1 /\ sFirst = -1

\* C11: for a source file of 0 bytes and no checkpoint, the sender that completed the
\* handshake sends no data packet and ends with END\n; a receiver that took the START
\* ends with an existing output file of zero bytes and no checkpoint file.
C11_EmptyFile ==
    fileSize = 0 =>
        /\ sFirst = -1
        /\ sResume \in {-1, 0}
        /\ (sPc = "data_top" /\ sResume >= 0) => sEnd = 0
        /\ (sPc = "done" /\ sResume >= 0) => sEnd = 1
        /\ outFile = <<>>
        /\ ~ckpt.exists
        /\ (rPc \in {"loop", "done"} /\ rIO.in \notin {"start_timeout", "bad_start"})
                => outExists

\* C11 witness: both ends of the transfer of an empty file are over, END\n was sent
\* and consumed, and the output file exists with zero bytes.
C11_Witness ==
    /\ fileSize = 0
    /\ sPc = "done" /\ sResume = 0 /\ sEnd = 1 /\ sFirst = -1
    /\ rPc = "done" /\ rIO.in = "header_timeout" /\ rIO.end
    /\ outExists /\ outFile = <<>> /\ ~ckpt.exists

\* START lines written in the handshake so far: one per pass of the handshake loop
\* that got beyond the interrupt check
StartWrites == IF sPc = "hs_wait" THEN sRetries + 1 ELSE sRetries

\* C12: in the handshake the sender writes START at most MAX_RETRANS times; it leaves
\* the handshake loop as soon as it has read a valid ACK_STATUS:<n>; when
\* MAX_RETRANS attempts passed without one it ends having sent no data packet and
\* no END\n.
C12_HandshakeRetries ==
    /\ sPc \in {"hs_send", "hs_wait"} =>
            (sResume = -1 /\ StartWrites <= MAX_RETRANS /\ sRetries < MAX_RETRANS)
    /\ (sPc = "done" /\ sResume = -1) =>
            (sRetries = MAX_RETRANS /\ sFirst = -1 /\ sEnd = 0)
    /\ sResume >= 0 => sPc \in {"data_top", "data_wait", "done"}

\* C12 witness: the fifth START went unanswered although the receiver took one of
\* them, and the sender gave up.
C12_Witness ==
    /\ sPc = "done" /\ sResume = -1 /\ sRetries = MAX_RETRANS
    /\ rIO.in = "START"

\* the sender gave up on a block after MAX_RETRANS attempts
BlockGivenUp == sPc = "done" /\ sResume >= 0 /\ sRetries = MAX_RETRANS

\* C13: a block is transmitted at most MAX_RETRANS times; after MAX_RETRANS failed
\* attempts the sender ends with no END\n sent, and from then on the checkpoint of
\* the receiver keeps the number it holds (or moves on to a later block that was
\* still under way), it is never lost.
C13_GiveUpKeepsCheckpoint ==
    /\ [](sPc = "data_wait" => sRetries < MAX_RETRANS)
    /\ [](BlockGivenUp => sEnd = 0)
    /\ [][(BlockGivenUp /\ BlockGivenUp') => Stored(ckpt') >= Stored(ckpt)]_vars

\* C14: once the interrupt flag of the sender is set, the sender puts no further
\* bytes on the channel.
C14_SilentAfterInterrupt ==
    [][(sInt /\ sInt') => Len(s2r') <= Len(s2r)]_vars

\* C15: a START line consumed by the receive loop is answered with no byte and
\* leaves the output file, the block counter, the checkpoint and the expected
\* sequence number as they are.
C15_StartIgnored ==
    [][(rPc = "loop" /\ s2r # <<>> /\ ~rInt /\ Head(s2r).t = "START"
            /\ s2r' = Tail(s2r) /\ rIO' # rIO)
        => /\ rIO'.out = "none"
           /\ UNCHANGED <<outFile, rCur, ckpt, rExp>>]_vars

\* the reference: a 32-bit register as the sequence of its bits, least significant
\* first; polynomial 0xEDB88320, one bit of input at a time
ReferencePoly ==
    <<0,0,0,0,0,1,0,0, 1,1,0,0,0,0,0,1, 0,0,0,1,1,1,0,1, 1,0,1,1,0,1,1,1>>

ReferenceBitsOf(byte) == [i \in 1..8 |-> (byte \div (2 ^ (i - 1))) % 2]

\* one input bit: the register is shifted, and the polynomial is added when the bit
\* shifted out differs from the input bit
ReferenceShift(reg, bit) ==
    LET shifted == [i \in 1..32 |-> IF i < 32 THEN reg[i + 1] ELSE 0]
    IN IF reg[1] # bit
       THEN [i \in 1..32 |-> (shifted[i] + ReferencePoly[i]) % 2]
       ELSE shifted

RECURSIVE ReferenceByte(_, _)
ReferenceByte(reg, bits) ==
    IF bits = <<>> THEN reg ELSE ReferenceByte(ReferenceShift(reg, Head(bits)), Tail(bits))

RECURSIVE ReferenceCrc(_, _)
ReferenceCrc(reg, data) ==
    IF data = <<>> THEN [i \in 1..32 |-> 1 - reg[i]]
    ELSE ReferenceCrc(ReferenceByte(reg, ReferenceBitsOf(Head(data))), Tail(data))

\* the bytes of a register of 32 bits, least significant first
LittleEndian(reg) ==
    [k \in 1..4 |->
        reg[8 * k - 7] + 2 * reg[8 * k - 6] + 4 * reg[8 * k - 5] + 8 * reg[8 * k - 4]
        + 16 * reg[8 * k - 3] + 32 * reg[8 * k - 2] + 64 * reg[8 * k - 1] + 128 * reg[8 * k]]

\* C16: calculate_crc32(B) is the little-endian encoding of the reference IEEE 802.3
\* CRC-32 of B; it is 0 for the empty sequence, and it reproduces the published
\* values for the bytes 00 and 61.
C16_CrcMatchesReference ==
    crcOut # <<>> =>
        /\ crcOut = LittleEndian(ReferenceCrc([i \in 1..32 |-> 1], crcIn))
        /\ crcIn = <<>> => crcOut = <<0, 0, 0, 0>>
        /\ crcIn = <<0>> => crcOut = <<141, 239, 2, 210>>
        /\ crcIn = <<97>> => crcOut = <<67, 190, 183, 232>>

\* C16 witness: the CRC of a sequence of MaxCrcLen bytes was computed.
C16_Witness ==
    /\ Len(crcIn) >= 3
    /\ crcIn[1] # crcIn[2]
    /\ Len(crcOut) = 4

\* C17: in a fresh transfer over a link that damages nothing, the packet of block i
\* carries the source bytes from i * BLOCK_SIZE, with payload_len BLOCK_SIZE for every
\* block but the last and S - BLOCK_SIZE * (total_blocks - 1) for the last; the sender
\* that wrote END\n has sent the blocks 0 .. total_blocks - 1, and
\* total_blocks = ceil(S / BLOCK_SIZE) (1 for 100, 2 for 101, 11 for 1024 with a
\* last packet of 24).
C17_PacketCountAndLengths ==
    LET total == total_blocks(fileSize) IN
    /\ total * BLOCK_SIZE >= fileSize
    /\ fileSize > 0 => (total - 1) * BLOCK_SIZE < fileSize
    /\ total_blocks(100) = 1 /\ total_blocks(101) = 2 /\ total_blocks(1024) = 11
    /\ sPc = "data_wait" =>
            /\ sResume = 0
            /\ ReadBlock(1024, 1000).len = 24 /\ ReadBlock(1024, 900).len = 100
            /\ sCur < total
            /\ sPkt.t = "DATA"
            /\ sPkt.data.off = sCur * BLOCK_SIZE
            /\ sPkt.len = sPkt.data.len
            /\ sPkt.len = IF sCur < total - 1 THEN BLOCK_SIZE
                           ELSE fileSize - BLOCK_SIZE * (total - 1)
    /\ (sPc = "done" /\ sEnd = 1) => sCur = total

\* C17 witness: the second and last packet of a file of BLOCK_SIZE + 1 bytes is under
\* way with a payload of one byte.
C17_Witness ==
    /\ fileSize = BLOCK_SIZE + 1
    /\ sPc = "data_wait" /\ sResume = 0 /\ sCur = 1
    /\ sPkt.len = 1 /\ sPkt.data.off = BLOCK_SIZE

C19_AckAdvances ==
    /\ [](sPc \in {"data_top", "data_wait"} => (sCur >= sResume /\ sSeq = sCur % 2))
    /\ [](sPc = "data_wait" =>
            /\ sPkt.data.off = sCur * BLOCK_SIZE
            /\ sPkt.seq = (sPkt.data.off \div BLOCK_SIZE) % 2)
    /\ [][(sPc = "data_wait" /\ sPc' = "data_top") =>
            (sCur' = sCur + 1 /\ sSeq' = 1 - sSeq)]_vars
    /\ [][(sPc = "data_top" /\ sPc' = "data_wait") =>
            (sRetries' = 0 /\ sCur' = sCur /\ sPkt'.seq = sSeq)]_vars

\* C19 witness: a sender resumed at block 1 read an 'A' and has block 2 under way
\* with sequence number 0 and no retry.
C19_Witness ==
    /\ sResume = 1
    /\ sPc = "data_wait" /\ sCur = 2 /\ sRetries = 0
    /\ sPkt.seq = 0 /\ sPkt.data.off = 2 * BLOCK_SIZE

\* an attempt of the data loop failed: the retry count moved while the sender waited
FailedAttempt == sPc = "data_wait" /\ sRetries' # sRetries

\* C20 as stated: every failed attempt ('N', timeout, any byte other than 'A') is
\* followed by a retransmission.
C20_AlwaysRetransmits ==
    [][FailedAttempt => (sRetries' = sRetries + 1 /\ sPc' = "data_wait")]_vars

\* C20 amended: the sender leaves the wait for the next block only on a byte 'A';
\* every other outcome adds one to the retry count and leaves the block index, the
\* sequence bit, the read position and the packet as they are; while the count is
\* below MAX_RETRANS the same packet is written again, and at MAX_RETRANS the sender
\* ends without writing it again.
C20_FailedAttemptRetransmits ==
    /\ [][(sPc = "data_wait" /\ sPc' = "data_top") =>
            (r2s # <<>> /\ Head(r2s).t \in {"A", "AS"})]_vars
    /\ [][FailedAttempt =>
            /\ sRetries' = sRetries + 1
            /\ UNCHANGED <<sCur, sSeq, sPos, sPkt>>
            /\ IF sRetries' < MAX_RETRANS
               THEN /\ sPc' = "data_wait"
                    /\ s2r' \in {s2r, Append(s2r, sPkt)}
                    /\ (rPc \in {"wait_start", "loop", "acc_ack", "acc_save"}
                            /\ Len(s2r) < MaxChan) => s2r' = Append(s2r, sPkt)
               ELSE sPc' = "done" /\ s2r' = s2r]_vars

\* C20 witness: the receiver answered 'N', and the sender, on its second retry, has
\* put the packet it holds on the channel again.
C20_Witness ==
    /\ sPc = "data_wait" /\ sRetries = 2
    /\ rIO.out = "N"
    /\ s2r # <<>> /\ s2r[Len(s2r)] = sPkt

\* the receive loop consumes the frame at the head of the channel
Consumes == rPc = "loop" /\ ~rInt /\ s2r # <<>> /\ s2r' = Tail(s2r)

\* the frame is one of the four kinds the receiver rejects
Rejected(frame, expected) ==
    \/ frame.t # "DATA"
    \/ /\ frame.t = "DATA"
       /\ \/ frame.data.len # frame.len
          \/ frame.crc # Checksum(frame.data)
          \/ frame.seq \notin {expected, 1 - expected}

\* C21: a pass of the receive loop that consumes bytes that are no complete header, a
\* packet whose payload is incomplete, a packet whose CRC does not match, or a packet
\* whose sequence byte is neither expected_seq nor 1 - expected_seq, writes one 'N'
\* and leaves the output file, the block counter, the checkpoint file and
\* expected_seq as they are.
C21_RejectAnswersNak ==
    [][(Consumes /\ Rejected(Head(s2r), rExp))
        => /\ rIO'.out = "N" /\ rIO'.verdict = "N"
           /\ rPc' = "loop"
           /\ UNCHANGED <<outFile, outExists, rCur, ckpt, rExp>>]_vars

\* C21 witness: after an accepted block, the receiver rejected a data packet of the
\* foreign sender with 'N'.
C21_Witness ==
    /\ rPc = "loop" /\ rCur = 1 /\ Stored(ckpt) = 1
    /\ rIO.in = "DATA" /\ rIO.out = "N"
    /\ injected >= 2

\* the frame is a complete packet with a matching CRC and the sequence number of the
\* block accepted last
Duplicate(frame, expected) ==
    /\ frame.t = "DATA"
    /\ frame.data.len = frame.len
    /\ frame.crc = Checksum(frame.data)
    /\ frame.seq = 1 - expected

\* C22: a complete packet with a matching CRC and seq = 1 - expected_seq is answered
\* with one 'A' and nothing is written: the output file, the block counter, the
\* checkpoint and expected_seq are unchanged.
C22_DuplicateAnswersAck ==
    [][(Consumes /\ Duplicate(Head(s2r), rExp))
        => /\ rIO'.out = "A" /\ rIO'.verdict = "A"
           /\ r2s' = Write(r2s, AckByte, sPc)
           /\ rPc' = "loop"
           /\ UNCHANGED <<outFile, outExists, rCur, ckpt, rExp>>]_vars

\* C22 witness: the 'A' for the first block was lost, the sender sent the block again,
\* and the receiver answered the second copy 'A' with one block in the output.
C22_Witness ==
    /\ rPc = "loop" /\ rCur = 1 /\ Len(outFile) = 1 /\ Stored(ckpt) = 1
    /\ rIO.in = "DATA" /\ rIO.verdict = "A" /\ rIO.out = "A"
    /\ sPc = "data_wait" /\ sCur = 0 /\ sRetries = 1
    /\ r2s = <<AckByte>>

\* C23: at every instant at which the 'A' for a newly accepted block has been
\* written, the checkpoint file already counts that block.
C23_CheckpointBeforeAck ==
    (rIO.verdict = "write" /\ rIO.out = "A" /\ rPc \in {"loop", "acc_ack", "acc_save"})
        => (ckpt.exists /\ Stored(ckpt) = rCur)

\* C24: a packet that declares a payload_len outside 1 .. BLOCK_SIZE is answered 'N'
\* and changes no state, also when its CRC field matches the bytes received.
C24_LengthRange ==
    [][(Consumes /\ Head(s2r).t = "DATA" /\ Head(s2r).len \notin 1..BLOCK_SIZE)
        => /\ rIO'.out = "N"
           /\ rPc' = "loop"
           /\ UNCHANGED <<outFile, rCur, ckpt, rExp>>]_vars

\* C25: the sender writes END\n at most once per session, and only with the block
\* index at total_blocks, which it reaches from the block of the resume by one step
\* per 'A' read while it waits for the answer to that block; it writes no END\n after
\* it gave up on a block or on the handshake, and none once received_interrupt is set.
C25_EndOnlyAfterSuccess ==
    /\ [](sEnd <= 1)
    /\ [][sEnd' > sEnd =>
            /\ sEnd = 0 /\ sEnd' = 1
            /\ ~sInt
            /\ sResume >= 0 /\ sCur >= sResume
            /\ sCur >= total_blocks(fileSize)
            /\ sCur > sResume => sCur = total_blocks(fileSize)
            /\ sPc' = "done"]_vars
    /\ [][(sPc = "data_wait" /\ sPc' = "data_top") =>
            (sCur' = sCur + 1 /\ r2s # <<>> /\ Head(r2s).t = "A")]_vars
    /\ [](BlockGivenUp => sEnd = 0)
    /\ []((sPc = "done" /\ sResume = -1) => sEnd = 0)
    /\ [][(sInt /\ sInt') => sEnd' = sEnd]_vars

\* C25 witness: in its second session the sender, resumed at block 1 of 2, read the
\* 'A' for the last block and wrote END\n.
C25_Witness ==
    /\ sStarts = 2 /\ sResume = 1
    /\ fileSize = BLOCK_SIZE + 1
    /\ sPc = "done" /\ sCur = 2 /\ sEnd = 1 /\ ~sInt

\* C26: the channel from sender to receiver never holds more than one data packet,
\* and the channel from receiver to sender never more than one response byte, also
\* when the sender's timeout fires while the packet or its answer is in transit.
C26_OneInFlight ==
    /\ Cardinality({i \in 1..Len(s2r) : s2r[i].t = "DATA"}) <= 1
    /\ Cardinality({i \in 1..Len(r2s) : r2s[i].t \in {"A", "N"}}) <= 1

\* the receiver takes the START line and opens the output file
Opens == rPc = "wait_start" /\ rPc' = "loop"

\* C27: at session start the output file is opened with its content kept when a
\* checkpoint file exists and with its content discarded otherwise, and the content
\* kept is exactly the blocks counted by the checkpoint, the number announced in
\* ACK_STATUS.
C27_AppendKeepsCountedBlocks ==
    [][Opens =>
        /\ outFile' = (IF ckpt.exists THEN outFile ELSE <<>>)
        /\ rIO'.out = "AS" /\ rLast' = Stored(ckpt)
        /\ ckpt.exists => outFile' = FirstBlocks(Stored(ckpt))]_vars

\* C28: a load_checkpoint that follows a save_checkpoint(n), with any number of loads
\* and no save, remove or damage between them, returns n, for every n in 0 .. MaxCkpt.
C28_RoundTrip ==
    (ckOp = "load" /\ ckArg # -1) => ckGot = ckArg

\* C28 witness: 101 was saved and read back.
C28_Witness ==
    /\ ckOp = "load" /\ ckArg = 101 /\ ckGot = 101
    /\ ckpt.exists /\ Len(ckpt.text) = 3

\* C29: load_checkpoint returns 0 when the file is missing or its content is no
\* number; remove_checkpoint leaves no file, changes nothing when there is none, and
\* load_checkpoint returns 0 after it.
C29_MissingOrUnparseable ==
    /\ []((ckOp = "load" /\ ckArg = -1) => ckGot = 0)
    /\ []((ckOp = "load" /\ (~ckpt.exists \/ ~IsDecimal(ckpt.text))) => ckGot = 0)
    /\ [](ckOp = "remove" => (~ckpt.exists /\ load_checkpoint(ckpt) = 0))
    /\ [][(ckOp' = "remove" /\ ~ckpt.exists) => ckpt' = ckpt]_vars
    /\ [](remove_checkpoint(remove_checkpoint(ckpt)) = remove_checkpoint(ckpt))

\* C29 witness: a checkpoint file whose content is a digit followed by another
\* character was read as 0.
C29_Witness ==
    /\ ckOp = "load" /\ ckArg = -1 /\ ckGot = 0
    /\ ckpt.exists /\ ckpt.text = <<1, 10>>

\* C30: while both ends are in the data phase of a session, the block index of the
\* sender is the block counter of the receiver or one behind it: the sender moves
\* past a block only after the receiver has written it, also when it reads an 'A'
\* that answers an earlier transmission.
C30_SenderNeverAhead ==
    (sResume >= 0 /\ sPc \in {"data_top", "data_wait"}
            /\ rPc \in {"loop", "acc_ack", "acc_save"})
        => (sCur <= rCur /\ rCur <= sCur + 1)

\* the ACK_STATUS lines on the channel to the sender, damaged ones included
CountStatus(ch) == Cardinality({i \in 1..Len(ch) : ch[i].t = "AS"})

\* the receiver is past its START read, no ACK_STATUS line is under way and the sender
\* has read none that is valid
StatusGone ==
    /\ rPc \in {"loop", "acc_ack", "acc_save", "done"}
    /\ CountStatus(r2s) = 0
    /\ sResume = -1

\* C31: in a session the receiver writes ACK_STATUS at most once, in answer to the
\* first line it reads, a START; once that line is gone without the sender having
\* read it as valid, no START written later is answered with ACK_STATUS, and the
\* handshake of the sender does not succeed.
C31_StatusOnlyOnce ==
    /\ [](CountStatus(r2s) <= 1)
    /\ [][CountStatus(r2s') > CountStatus(r2s) =>
            /\ rPc = "wait_start" /\ rPc' = "loop"
            /\ rIO = NoIO
            /\ s2r # <<>> /\ Head(s2r).t = "START"]_vars
    /\ [][(sResume = -1 /\ sResume' >= 0) =>
            (r2s # <<>> /\ Head(r2s).t = "AS" /\ CountStatus(r2s') = 0)]_vars
    /\ [][StatusGone => StatusGone']_vars

\* C31 witness: the ACK_STATUS was lost, a later START was answered 'N' by the receive
\* loop, and the sender gave up after MAX_RETRANS attempts.
C31_Witness ==
    /\ StatusGone
    /\ rPc = "loop" /\ rIO.in = "START" /\ rIO.out = "N"
    /\ sPc = "done" /\ sRetries = MAX_RETRANS

\* C32: over a link that loses, damages and delays in any pattern, a started sender
\* ends, after at most MAX_RETRANS START lines and at most MAX_RETRANS transmissions
\* of each of the blocks up to total_blocks, and a started receiver ends; neither
\* waits for the other for ever.
C32_Terminates ==
    /\ [](sRetries <= MAX_RETRANS)
    /\ [](sPc \in {"hs_send", "hs_wait"} => StartWrites <= MAX_RETRANS)
    /\ [](sPc = "data_wait" => (sRetries < MAX_RETRANS /\ sCur < total_blocks(fileSize)))
    /\ [][sPc = "data_wait" => sCur' \in {sCur, sCur + 1}]_vars
    /\ (sPc # "off") ~> (sPc = "done")
    /\ (rPc # "off") ~> (rPc = "done")

\* C32 witness: after a resumed session in which the link lost packets, the sender
\* has given up on a later block and the receiver has left its loop on the header
\* timeout.
C32_Witness ==
    /\ sPc = "done" /\ sResume = 1 /\ sCur = 2 /\ sRetries = MAX_RETRANS /\ sEnd = 0
    /\ rPc = "done" /\ rIO.in = "header_timeout"

\* the receiver is in its receive loop, the accept path included
InLoop(pc) == pc \in {"loop", "acc_ack", "acc_save"}

\* C33: while the receiver is in its receive loop, the number in the checkpoint file
\* never decreases and changes only by +1, once per accepted packet, in the save that
\* ends the accept path; at every loop head it equals the block counter, which
\* starts at the number loaded, and expected_seq is the block counter mod 2.
C33_CheckpointCountsAccepted ==
    /\ [](rPc = "loop" =>
            /\ rExp = rCur % 2
            /\ rCur >= rLast
            /\ Stored(ckpt) = rCur)
    /\ [](rPc = "acc_ack" => Stored(ckpt) = rCur)
    /\ [](rPc = "acc_save" => Stored(ckpt) = rCur - 1)
    /\ [][(rPc = "wait_start" /\ rPc' = "loop") =>
            (rCur' = Stored(ckpt) /\ rLast' = Stored(ckpt) /\ ckpt' = ckpt)]_vars
    /\ [][(InLoop(rPc) /\ InLoop(rPc')) =>
            /\ Stored(ckpt') \in {Stored(ckpt), Stored(ckpt) + 1}
            /\ Stored(ckpt') # Stored(ckpt) <=> (rPc = "acc_save" /\ rPc' = "loop")
            /\ rCur' # rCur <=> (rPc = "acc_ack" /\ rPc' = "acc_save")]_vars

\* C33 witness: a session resumed with the checkpoint 1 accepted two packets and is
\* at the loop head with the checkpoint 3 and expected_seq 1.
C33_Witness ==
    /\ rPc = "loop" /\ rLast = 1 /\ rCur = 3 /\ rExp = 1
    /\ ckpt.exists /\ Stored(ckpt) = 3
    /\ rIO.verdict = "write"

====
